---- MODULE Spec2Model ----
(***************************************************************************)
(* The concurrent crawler of src/src/crawl.ts (class ConcurrentCrawler)    *)
(* as a state machine.  JavaScript runs the crawler on one thread: a       *)
(* continuation runs to its next await without interruption, so each       *)
(* action below is one continuation: the call of crawl(), the settling of  *)
(* one getHTML() promise (which extracts the links and calls crawlPage on  *)
(* every one of them up to its first await), the settling of one           *)
(* Promise.all, and the return of crawl().                                 *)
(***************************************************************************)
EXTENDS Integers, Sequences, FiniteSets, TLC

VARIABLES
    baseURL,         \* ConcurrentCrawler.baseURL, the seed given to the constructor
    maxConcurrency,  \* the constructor's maxConcurrency, handed to pLimit
    maxPages,        \* the page budget the caller asked for (index.ts:18)
    site,            \* what the server is pinned to answer, per URL (<<>>: unpinned)
    pages,           \* ConcurrentCrawler.pages, the visit ledger: key -> count
    branches,        \* the crawlPage calls suspended at an await, or settled
    fetchCount,      \* history: how many times fetch(url) was called, per URL
    linked,          \* history: per key, the same-host links extracted so far
    skipped,         \* history: the links to other hosts extracted so far
    crawlState,      \* the promise of crawl(): idle, running, returned, rejected
    anchorsLeft,     \* how many more anchors an unpinned server will serve
    result           \* history: the ledger as it was when crawl() returned

vars == <<baseURL, maxConcurrency, maxPages, site, pages, branches, fetchCount,
          linked, skipped, crawlState, anchorsLeft, result>>

-----------------------------------------------------------------------------
(* Bounds of the model *)

\* the most anchors the pages fetched in one crawl hold, all together
MaxAnchors == 3
\* the largest maxConcurrency a crawler is constructed with
MaxConcurrencyBound == 2
\* the largest page budget a caller asks for
MaxPagesBound == 2
\* the most calls of crawl() made on one crawler
MaxCrawls == 3

-----------------------------------------------------------------------------
(* URLs.  A URL string is modelled by what URL.parse makes of it: ok is    *)
(* FALSE when it does not parse; pathname is the list of its tokens.       *)

MkURL(h, p, path, q, f) ==
    [ok |-> TRUE, hostname |-> h, port |-> p, pathname |-> path, search |-> q,
     hash |-> f]

BadURL ==
    [ok |-> FALSE, hostname |-> "", port |-> "", pathname |-> <<>>, search |-> "",
     hash |-> ""]

SeedURL == MkURL("ex.com", "", <<"/">>, "", "")

\* the seeds a crawler is constructed with
Seeds == {SeedURL, BadURL}

\* href attributes of the anchors of a page: absolute URLs, absolute paths,
\* relative references, the empty attribute, and one no URL parser accepts
HrefAbs(u) == [kind |-> "abs", url |-> u, pathname |-> <<>>, search |-> "", hash |-> ""]
HrefPath(path, q, f) ==
    [kind |-> "path", url |-> BadURL, pathname |-> path, search |-> q, hash |-> f]
HrefRel(path) ==
    [kind |-> "rel", url |-> BadURL, pathname |-> path, search |-> "", hash |-> ""]
HrefEmpty == [kind |-> "empty", url |-> BadURL, pathname |-> <<>>, search |-> "", hash |-> ""]
HrefBad == [kind |-> "bad", url |-> BadURL, pathname |-> <<>>, search |-> "", hash |-> ""]

\* a link to a page of another host
HrefOther == HrefAbs(MkURL("other.com", "", <<"/", "x">>, "", ""))

Hrefs ==
    { HrefPath(<<"/">>, "", ""),
      HrefPath(<<"/", "a">>, "", ""),
      HrefPath(<<"/", "a", "/">>, "?x=1", "#top"),
      HrefRel(<<"b">>),
      HrefPath(<<"/", "c">>, "", ""),
      HrefOther,
      HrefEmpty,
      HrefBad }

\* the directory of a pathname: everything up to and including its last "/"
RECURSIVE DirOf(_)
DirOf(path) ==
    IF path = <<>> THEN <<"/">>
    ELSE IF path[Len(path)] = "/" THEN path
    ELSE DirOf(SubSeq(path, 1, Len(path) - 1))

\* new URL(href, base) throws
ResolveThrows(href, base) == href.kind = "bad" \/ ~base.ok

\* new URL(href, base).toString()
Resolve(href, base) ==
    CASE href.kind = "abs" -> href.url
      [] href.kind = "path" ->
            [base EXCEPT !.pathname = href.pathname, !.search = href.search,
                         !.hash = href.hash]
      [] href.kind = "rel" ->
            [base EXCEPT !.pathname = DirOf(base.pathname) \o href.pathname,
                         !.search = "", !.hash = ""]
      [] OTHER -> base

-----------------------------------------------------------------------------
(* normalizeURL *)

\* stripTrailingSlash that leaves the string as it is
stripTrailingSlashKeep(str) == str

stripTrailingSlash(str) ==
    IF Len(str) > 0 /\ str[Len(str)] = "/" THEN SubSeq(str, 1, Len(str) - 1) ELSE str

\* normalizeURL throws "invalid url"
normalizeThrows(input) == ~input.ok

\* normalizeURL that keeps the query string in the key
normalizeURLWithSearch(input) ==
    <<input.hostname, input.port>> \o stripTrailingSlash(input.pathname)
        \o <<input.search>>

\* the key: host (hostname and port) followed by the stripped pathname
normalizeURL(input) ==
    <<input.hostname, input.port>> \o stripTrailingSlash(input.pathname)

-----------------------------------------------------------------------------
(* getURLsFromHTML: html is the list of the href attributes of its anchors *)

RECURSIVE getURLsFromHTML(_, _)
getURLsFromHTML(html, base) ==
    IF html = <<>> THEN <<>>
    ELSE LET href == Head(html)
             rest == getURLsFromHTML(Tail(html), base)
         IN  IF href.kind = "empty" THEN rest
             ELSE IF ResolveThrows(href, base) THEN rest
             ELSE <<Resolve(href, base)>> \o rest

-----------------------------------------------------------------------------
(* The server: what fetch(url) settles with *)

\* every list of at most n elements of S
RECURSIVE SeqsUpTo(_, _)
SeqsUpTo(S, n) ==
    IF n = 0 THEN {<<>>}
    ELSE LET shorter == SeqsUpTo(S, n - 1)
         IN  shorter \cup {Append(s, x) : s \in shorter, x \in S}

\* the page bodies of at most n anchors
Bodies == [n \in 0..MaxAnchors |-> SeqsUpTo(Hrefs, n)]

\* bodies sent along with an answer whose body getHTML does not read
UnreadBodies == {<<>>, <<HrefPath(<<"/", "c">>, "", "")>>}

HtmlType == "text/html; charset=utf-8"

\* contentType.includes("text/html")
IncludesTextHtml(contentType) == contentType \in {"text/html", HtmlType}

MkResponse(ne, st, ct, body) ==
    [neterr |-> ne, status |-> st, contentType |-> ct, body |-> body]

\* fetch() rejects: no connection, DNS failure, unsupported scheme
NetworkError == MkResponse(TRUE, 0, "", <<>>)

\* the answers of a server with n anchors left to serve; "" is the missing
\* content-type header
Responses(n) ==
    {NetworkError}
    \cup {MkResponse(FALSE, st, HtmlType, b) : st \in {200, 399}, b \in Bodies[n]}
    \cup {MkResponse(FALSE, st, HtmlType, b) : st \in {400, 500}, b \in UnreadBodies}
    \cup {MkResponse(FALSE, 200, ct, b) : ct \in {"", "application/json"}, b \in UnreadBodies}

\* the answers fetch(url) can settle with: the pinned one, or any
ResponsesFor(url) ==
    IF url \in DOMAIN site THEN {site[url]} ELSE Responses(anchorsLeft)

\* the anchors left to serve once html has been read
AnchorsAfter(html) ==
    IF DOMAIN site = {} THEN anchorsLeft - Len(html) ELSE anchorsLeft

\* getHTML(url), once fetch has settled with resp: a throw, or the html returned
\* (why: the path taken, "network", "status", "type" or "ok")
getHTML(resp) ==
    IF resp.neterr THEN [throws |-> TRUE, html |-> <<>>, why |-> "network"]
    ELSE IF resp.status > 399 THEN [throws |-> FALSE, html |-> <<>>, why |-> "status"]
    ELSE IF resp.contentType = "" \/ ~IncludesTextHtml(resp.contentType)
         THEN [throws |-> FALSE, html |-> <<>>, why |-> "type"]
    ELSE [throws |-> FALSE, html |-> resp.body, why |-> "ok"]

-----------------------------------------------------------------------------
(* ConcurrentCrawler *)

\* a ledger with no entry; get reads an entry, 0 standing for undefined
NoPages == [k \in {} |-> 0]
Get(f, k) == IF k \in DOMAIN f THEN f[k] ELSE 0
Put(f, k, v) == [x \in DOMAIN f \cup {k} |-> IF x = k THEN v ELSE f[x]]

\* addPageVisit without its membership test: every visit counts as the first
addPageVisitNoCheck(pgs, normalizedURL) ==
    [pages |-> Put(pgs, normalizedURL, Get(pgs, normalizedURL) + 1), isNew |-> TRUE]

\* addPageVisit that counts a URL once, not every visit of it
addPageVisitNoIncrement(pgs, normalizedURL) ==
    IF Get(pgs, normalizedURL) # 0
    THEN [pages |-> pgs, isNew |-> FALSE]
    ELSE [pages |-> Put(pgs, normalizedURL, 1), isNew |-> TRUE]

\* addPageVisit: the ledger after the call, and the value returned
addPageVisit(pgs, normalizedURL) ==
    IF Get(pgs, normalizedURL) # 0
    THEN [pages |-> Put(pgs, normalizedURL, pgs[normalizedURL] + 1), isNew |-> FALSE]
    ELSE [pages |-> Put(pgs, normalizedURL, 1), isNew |-> TRUE]

\* crawlPage without its host filter
OtherHostNever(currentURL, base) == FALSE

\* currentURLObj.hostname !== baseURLObj.hostname
OtherHost(currentURL, base) == currentURL.hostname # base.hostname

Branch(url, parent, st, outcome) ==
    [url |-> url, key |-> normalizeURL(url), parent |-> parent, st |-> st,
     outcome |-> outcome]

\* crawlPage(currentURL), called by branch `parent` (0: by crawl()), from its
\* first line to its first await or its return; acc is the crawler's state
crawlPage(currentURL, parent, acc) ==
    IF ~currentURL.ok \/ ~baseURL.ok \/ normalizeThrows(currentURL)
    THEN [acc EXCEPT !.branches = Append(@, Branch(BadURL, parent, "rejected", "none"))]
    ELSE IF OtherHost(currentURL, baseURL) THEN acc
    ELSE LET visit == addPageVisit(acc.pages, normalizeURL(currentURL))
         IN  IF ~visit.isNew THEN [acc EXCEPT !.pages = visit.pages]
             ELSE [pages |-> visit.pages,
                   branches |-> Append(acc.branches,
                                       Branch(currentURL, parent, "fetching", "none")),
                   fetchCount |-> Put(acc.fetchCount, currentURL,
                                      Get(acc.fetchCount, currentURL) + 1)]

\* a map that calls crawlPage on the first link alone
MapCrawlPageFirstOnly(nextURLs, parent, acc) ==
    IF nextURLs = <<>> THEN acc ELSE crawlPage(Head(nextURLs), parent, acc)

\* nextURLs.map((nextURL) => this.crawlPage(nextURL))
RECURSIVE MapCrawlPage(_, _, _)
MapCrawlPage(nextURLs, parent, acc) ==
    IF nextURLs = <<>> THEN acc
    ELSE MapCrawlPage(Tail(nextURLs), parent, crawlPage(Head(nextURLs), parent, acc))

\* the links of urls to the seed's host, and to other hosts
SameHostLinks(urls) == SelectSeq(urls, LAMBDA u : u.hostname = baseURL.hostname)
OtherHostLinks(urls) == {urls[i] : i \in {j \in 1..Len(urls) : urls[j].hostname # baseURL.hostname}}

\* how many of urls normalize to key
RECURSIVE CountLinks(_, _)
CountLinks(urls, key) ==
    IF urls = <<>> THEN 0
    ELSE (IF normalizeURL(Head(urls)) = key THEN 1 ELSE 0) + CountLinks(Tail(urls), key)

LinkKeys(urls) == {normalizeURL(urls[i]) : i \in 1..Len(urls)}

\* crawlPage without its catch: a throw of getHTML rejects the branch
AfterThrowUncaught == "rejected"

\* the catch of crawlPage: a throw of getHTML is logged and the branch returns
AfterThrow == "done"

\* the crawlPage calls made by branch b (0: by crawl())
Children(b) == {c \in 1..Len(branches) : branches[c].parent = b}

\* the crawlPage promises left unawaited
AllFulfilledNoWait(b) == TRUE

\* Promise.all(crawlPromises) of branch b is fulfilled: every promise is
AllFulfilled(b) == \A c \in Children(b) : branches[c].st = "done"

\* Promise.all(crawlPromises) of branch b is rejected: one promise is
SomeRejected(b) == \E c \in Children(b) : branches[c].st = "rejected"

\* links resolved against the URL of the page that holds them
LinkBaseOfPage(b) == branches[b].url

\* the base the links of the page of branch b are resolved against: this.baseURL
LinkBase(b) == baseURL

InFlight == {b \in 1..Len(branches) : branches[b].st = "fetching"}

Init ==
    /\ baseURL \in Seeds
    /\ maxConcurrency \in 1..MaxConcurrencyBound
    /\ maxPages \in 1..MaxPagesBound
    /\ site = <<>>
    /\ pages = NoPages
    /\ branches = <<>>
    /\ fetchCount = NoPages
    /\ linked = NoPages
    /\ skipped = {}
    /\ crawlState = "idle"
    /\ anchorsLeft = MaxAnchors
    /\ result = NoPages

\* crawl() is called: crawlPage(this.baseURL) runs to its first await
Crawl ==
    /\ crawlState = "idle"
    /\ LET acc == crawlPage(baseURL, 0,
                   [pages |-> pages, branches |-> branches, fetchCount |-> fetchCount])
       IN  /\ pages' = acc.pages
           /\ branches' = acc.branches
           /\ fetchCount' = acc.fetchCount
    /\ crawlState' = "running"
    /\ UNCHANGED <<baseURL, maxConcurrency, maxPages, site, linked, skipped,
                   anchorsLeft, result>>

\* await getHTML(currentURL) of branch b settles
GetHTMLSettles(b) ==
    /\ branches[b].st = "fetching"
    /\ \E resp \in ResponsesFor(branches[b].url) :
         LET got == getHTML(resp) IN
         IF got.throws
         THEN /\ branches' = [branches EXCEPT ![b].st = AfterThrow,
                                               ![b].outcome = "failed"]
              /\ UNCHANGED <<pages, fetchCount, linked, skipped, anchorsLeft>>
         ELSE LET nextURLs == getURLsFromHTML(got.html, LinkBase(b))
                  mine == [branches EXCEPT ![b].st = "joining",
                             ![b].outcome = IF got.why = "ok" THEN "ok" ELSE "failed"]
                  same == SameHostLinks(nextURLs)
                  acc == MapCrawlPage(nextURLs, b,
                           [pages |-> pages, branches |-> mine,
                            fetchCount |-> fetchCount])
              IN  /\ pages' = acc.pages
                  /\ branches' = acc.branches
                  /\ fetchCount' = acc.fetchCount
                  /\ linked' = [k \in DOMAIN linked \cup LinkKeys(same) |->
                                  Get(linked, k) + CountLinks(same, k)]
                  /\ skipped' = skipped \cup OtherHostLinks(nextURLs)
                  /\ anchorsLeft' = AnchorsAfter(got.html)
    /\ UNCHANGED <<baseURL, maxConcurrency, maxPages, site, crawlState, result>>

\* await Promise.all(crawlPromises) of branch b settles
PromiseAllSettles(b) ==
    /\ branches[b].st = "joining"
    /\ IF SomeRejected(b)
       THEN branches' = [branches EXCEPT ![b].st = "rejected"]
       ELSE /\ AllFulfilled(b)
            /\ branches' = [branches EXCEPT ![b].st = "done"]
    /\ UNCHANGED <<baseURL, maxConcurrency, maxPages, site, pages, fetchCount, linked,
                   skipped, crawlState, anchorsLeft, result>>

\* await this.crawlPage(this.baseURL) of crawl() settles: return this.pages
CrawlSettles ==
    /\ crawlState = "running"
    /\ IF SomeRejected(0)
       THEN crawlState' = "rejected" /\ result' = result
       ELSE /\ AllFulfilled(0)
            /\ crawlState' = "returned"
            /\ result' = pages
    /\ UNCHANGED <<baseURL, maxConcurrency, maxPages, site, pages, branches, fetchCount,
                   linked, skipped, anchorsLeft>>

Next ==
    \/ Crawl
    \/ \E b \in 1..Len(branches) : GetHTMLSettles(b)
    \/ \E b \in 1..Len(branches) : PromiseAllSettles(b)
    \/ CrawlSettles

Spec == Init /\ [][Next]_vars

-----------------------------------------------------------------------------
(* A crawler whose crawl() is called again once it has returned *)

\* how many times crawl() has called crawlPage(this.baseURL): the seed's
\* count less the links to it
CrawlCalls == Get(pages, normalizeURL(baseURL)) - Get(linked, normalizeURL(baseURL))

\* crawl() is called on a crawler whose last crawl() has returned
CrawlAgain ==
    /\ crawlState = "returned"
    /\ CrawlCalls < MaxCrawls
    /\ LET acc == crawlPage(baseURL, 0,
                   [pages |-> pages, branches |-> branches, fetchCount |-> fetchCount])
       IN  /\ pages' = acc.pages
           /\ branches' = acc.branches
           /\ fetchCount' = acc.fetchCount
    /\ crawlState' = "running"
    /\ UNCHANGED <<baseURL, maxConcurrency, maxPages, site, linked, skipped,
                   anchorsLeft, result>>

NextAgain ==
    \/ Next
    \/ CrawlAgain

SpecAgain == Init /\ [][NextAgain]_vars

-----------------------------------------------------------------------------
(* Crawls of a site whose answers are fixed before the crawl starts *)

\* the URLs of the seed's host that the anchors of a page can lead to
PinnedURLs ==
    {u \in {Resolve(h, SeedURL) : h \in {g \in Hrefs : g.kind \in {"abs", "path", "rel"}}} :
        u.hostname = SeedURL.hostname}

\* the page bodies of the pinned sites: no anchor; a page and another host
\* (the seed page of spec section 8, scenario 7); a link back to the seed and
\* a new page (its page /a); two new pages; one page under each of its two
\* spellings
PinnedBodies ==
    { <<>>,
      <<HrefPath(<<"/", "a">>, "", ""), HrefOther>>,
      <<HrefPath(<<"/">>, "", ""), HrefRel(<<"b">>)>>,
      <<HrefRel(<<"b">>), HrefPath(<<"/", "c">>, "", "")>>,
      <<HrefPath(<<"/", "a">>, "", "")>>,
      <<HrefPath(<<"/", "a", "/">>, "?x=1", "#top")>> }

PinnedResponses ==
    {NetworkError} \cup {MkResponse(FALSE, 200, HtmlType, b) : b \in PinnedBodies}

InitPinned ==
    /\ baseURL = SeedURL
    /\ maxConcurrency \in 1..MaxConcurrencyBound
    /\ maxPages \in 1..MaxPagesBound
    /\ site \in [PinnedURLs -> PinnedResponses]
    /\ pages = NoPages
    /\ branches = <<>>
    /\ fetchCount = NoPages
    /\ linked = NoPages
    /\ skipped = {}
    /\ crawlState = "idle"
    /\ anchorsLeft = MaxAnchors
    /\ result = NoPages

SpecPinned == InitPinned /\ [][Next]_vars

\* Crawls from a seed whose every page holds one anchor, where seed and anchor
\* are spellings of a few pages: with and without a trailing slash, a query
\* string, a fragment
VariantURLs ==
    {MkURL("ex.com", "", path, q, f) :
        path \in {<<"/">>, <<"/", "p">>, <<"/", "p", "/">>, <<"/", "p", "/", "/">>,
                  <<"/", "q">>},
        q \in {"", "?x=1", "?x=2"},
        f \in {"", "#f"}}

InitVariants ==
    /\ baseURL \in VariantURLs
    /\ maxConcurrency \in 1..MaxConcurrencyBound
    /\ maxPages \in 1..MaxPagesBound
    /\ \E v \in VariantURLs :
         site = [u \in VariantURLs |-> MkResponse(FALSE, 200, HtmlType, <<HrefAbs(v)>>)]
    /\ pages = NoPages
    /\ branches = <<>>
    /\ fetchCount = NoPages
    /\ linked = NoPages
    /\ skipped = {}
    /\ crawlState = "idle"
    /\ anchorsLeft = MaxAnchors
    /\ result = NoPages

SpecVariants == InitVariants /\ [][Next]_vars

\* Every started fetch settles, and the event loop runs every continuation
\* whose promise has settled.
Fairness ==
    /\ WF_vars(Crawl)
    /\ WF_vars(\E b \in 1..Len(branches) : GetHTMLSettles(b))
    /\ WF_vars(\E b \in 1..Len(branches) : PromiseAllSettles(b))
    /\ WF_vars(CrawlSettles)

FairSpec == Spec /\ Fairness

-----------------------------------------------------------------------------
(* Claims *)

\* the keys of the URLs fetch() was called with
FetchedKeys == {normalizeURL(u) : u \in DOMAIN fetchCount}

\* how many times fetch() was called with a URL of this key
RECURSIVE SumCounts(_, _)
SumCounts(f, S) ==
    IF S = {} THEN 0
    ELSE LET x == CHOOSE y \in S : TRUE IN f[x] + SumCounts(f, S \ {x})

FetchesOf(key) == SumCounts(fetchCount, {u \in DOMAIN fetchCount : normalizeURL(u) = key})

\* C1: at every moment of a crawl, the number of fetches that have started
\* and not yet completed is at most the crawler's maxConcurrency.
C1_FetchesWithinConcurrency == Cardinality(InFlight) <= maxConcurrency

\* C2: at every moment of a crawl, the number of distinct normalized URLs
\* admitted for fetching is at most maxPages.
C2_AdmittedWithinBudget == Cardinality(FetchedKeys) <= maxPages

\* C3: whatever the interleaving and however many links lead to it, fetch is
\* started at most once for each distinct normalized URL.
C3_FetchedAtMostOnce == \A key \in FetchedKeys : FetchesOf(key) <= 1

\* C3 witness: a crawl has returned in which one key was linked three times
\* by the pages that were fetched, and was fetched once.
C3_Witness ==
    /\ crawlState = "returned"
    /\ \E key \in DOMAIN linked :
         /\ linked[key] >= 3
         /\ FetchesOf(key) = 1
         /\ Cardinality({b \in 1..Len(branches) : branches[b].outcome = "ok"}) >= 2

\* C4: a crawl that was started from a seed that parses eventually returns,
\* whatever the pages link to (themselves and each other included), when every
\* started fetch settles.
C4_CrawlReturns == (crawlState = "running" /\ baseURL.ok) ~> (crawlState = "returned")

\* C4 witness: a crawl has returned from a graph with a cycle through two
\* pages and a self-link: a branch two calls deep was fetched and extracted,
\* and the seed and another page were each met again through a link.
C4_Witness ==
    /\ crawlState = "returned"
    /\ Get(linked, normalizeURL(baseURL)) >= 1
    /\ \E b \in 1..Len(branches) :
         /\ branches[b].parent # 0
         /\ branches[b].outcome = "ok"
         /\ linked[branches[b].key] >= 2

\* C5: a candidate URL whose hostname is not the seed's is never fetched, and
\* its key is in the ledger in no state, nor in the ledger crawl() returns.
C5_OtherHostNeverVisited ==
    /\ \A u \in DOMAIN fetchCount : u.hostname = baseURL.hostname
    /\ \A u \in skipped :
         /\ u.hostname # baseURL.hostname
         /\ normalizeURL(u) \notin DOMAIN pages
         /\ normalizeURL(u) \notin DOMAIN result

\* C5 witness: a crawl has returned after a fetched page linked to another host.
C5_Witness == crawlState = "returned" /\ skipped # {}

\* C6: crawl() never ends with an error: an unparsable URL, the seed included,
\* ends only the branch that met it.
C6_CrawlNeverRejects == crawlState # "rejected"

\* C7: the step in which a branch's fetch ends in a network error, a status
\* above 399 or a content type that is not HTML spawns no branch, fulfils or
\* suspends that branch (never rejects it), keeps its ledger entry, and leaves
\* every other branch, the ledger and crawl() as they were; and the crawl
\* still returns.
C7_FailedFetchIsLocal ==
    /\ ((\E b \in 1..Len(branches) : branches[b].outcome = "failed")
            ~> (crawlState = "returned"))
    /\ [][\A b \in 1..Len(branches) :
            (/\ branches[b].st = "fetching"
             /\ branches'[b].st # "fetching"
             /\ branches'[b].outcome = "failed")
            => /\ branches'[b].st \in {"joining", "done"}
               /\ Len(branches') = Len(branches)
               /\ \A c \in 1..Len(branches) \ {b} : branches'[c] = branches[c]
               /\ pages' = pages
               /\ branches[b].key \in DOMAIN pages
               /\ crawlState' = crawlState]_vars

\* C7 witness: a crawl has returned in which a branch's fetch failed and a
\* sibling of that branch was fetched, extracted and had a branch of its own.
C7_Witness ==
    /\ crawlState = "returned"
    /\ \E b, c \in 1..Len(branches) :
         /\ b # c
         /\ branches[b].parent = branches[c].parent
         /\ branches[b].outcome = "failed"
         /\ Children(b) = {}
         /\ branches[c].outcome = "ok"
         /\ Children(c) # {}

RECURSIVE RefVisit(_, _, _)
RefVisit(links, queue, ledger) ==
    IF links = <<>> THEN [queue |-> queue, ledger |-> ledger]
    ELSE LET key == normalizeURL(Head(links))
         IN  IF key \in DOMAIN ledger
             THEN RefVisit(Tail(links), queue, Put(ledger, key, ledger[key] + 1))
             ELSE RefVisit(Tail(links), Append(queue, Head(links)), Put(ledger, key, 1))

RECURSIVE RefCrawl(_, _)
RefCrawl(queue, ledger) ==
    IF queue = <<>> THEN ledger
    ELSE LET got == getHTML(site[Head(queue)])
             links == IF got.throws THEN <<>>
                      ELSE SameHostLinks(getURLsFromHTML(got.html, baseURL))
             next == RefVisit(links, Tail(queue), ledger)
         IN  RefCrawl(next.queue, next.ledger)

RefLedger == RefCrawl(<<baseURL>>, Put(NoPages, normalizeURL(baseURL), 1))

\* the server answers two URLs of one key alike
KeyConsistent ==
    \A u, v \in DOMAIN site : normalizeURL(u) = normalizeURL(v) => site[u] = site[v]

\* C9 as claimed: for a fixed answer per URL, crawl() returns the same ledger
\* under every interleaving, so the ledger of the crawl whose fetches settle
\* in the order they started.
C9_LedgerIsDeterministic == crawlState = "returned" => result = RefLedger

\* C9 as amended: when the server answers the URLs of one key alike, crawl()
\* returns the same ledger under every interleaving.
C9_LedgerIsDeterministicPerKey ==
    (crawlState = "returned" /\ KeyConsistent) => result = RefLedger

\* C9 witness: a crawl of a site that answers the URLs of one key alike has
\* returned, with four pages fetched, one of them by a branch that got to it
\* before a branch that was started earlier and links to it too.
C9_Witness ==
    /\ crawlState = "returned"
    /\ KeyConsistent
    /\ Cardinality(FetchedKeys) >= 4
    /\ \E p, q, x \in 1..Len(branches) :
         /\ p < q
         /\ branches[x].parent = q
         /\ branches[x].key \in
                LinkKeys(getURLsFromHTML(getHTML(site[branches[p].url]).html, baseURL))

\* C10: when crawl() has returned, every branch it started, directly or through
\* other branches, is finished, no fetch is in flight, and the ledger is still
\* the one that was returned.
C10_ReturnsAfterAllBranches ==
    crawlState = "returned" =>
        /\ \A b \in 1..Len(branches) : branches[b].st = "done"
        /\ InFlight = {}
        /\ pages = result

\* C10 witness: crawl() has returned after a branch three calls deep finished.
C10_Witness ==
    /\ crawlState = "returned"
    /\ \E b \in 1..Len(branches) :
         /\ branches[b].parent # 0
         /\ branches[branches[b].parent].parent # 0

\* the number of admitted keys has reached the page budget the caller asked for
BudgetReached == Cardinality(FetchedKeys) >= maxPages

\* C11: once the page budget is reached, no step of the crawl starts a fetch
\* or adds a child branch, for the rest of the crawl.
C11_NoFetchOnceBudgetReached ==
    [][BudgetReached => (fetchCount' = fetchCount /\ Len(branches') = Len(branches))]_vars

\* The site of spec section 8, scenario 7: / links to /a and to
\* https://other.com/x, /a links to / and to /b, /b has no links.
PageA == MkURL("ex.com", "", <<"/", "a">>, "", "")
PageB == MkURL("ex.com", "", <<"/", "b">>, "", "")

Scenario7 ==
    /\ baseURL = SeedURL
    /\ {SeedURL, PageA, PageB} \subseteq DOMAIN site
    /\ site[SeedURL] = MkResponse(FALSE, 200, HtmlType,
                                   <<HrefPath(<<"/", "a">>, "", ""), HrefOther>>)
    /\ site[PageA] = MkResponse(FALSE, 200, HtmlType,
                                 <<HrefPath(<<"/">>, "", ""), HrefRel(<<"b">>)>>)
    /\ site[PageB] = MkResponse(FALSE, 200, HtmlType, <<>>)

\* the keys "ex.com", "ex.com/a", "ex.com/b" and "other.com/x"
KeyRoot == <<"ex.com", "">>
KeyA == <<"ex.com", "", "/", "a">>
KeyB == <<"ex.com", "", "/", "b">>
KeyOther == <<"other.com", "", "/", "x">>

\* C12: the ledger crawl() returns for the site of scenario 7 has exactly the
\* keys ex.com, ex.com/a and ex.com/b, none for other.com/x, and counts
\* ex.com at least twice.
C12_Scenario7Ledger ==
    (Scenario7 /\ crawlState = "returned") =>
        /\ DOMAIN result = {KeyRoot, KeyA, KeyB}
        /\ KeyOther \notin DOMAIN result
        /\ result[KeyRoot] >= 2

\* C12 witness: the crawl of the site of scenario 7 has returned after
\* fetching its three pages, the link to other.com extracted and left alone.
C12_Witness ==
    /\ Scenario7
    /\ crawlState = "returned"
    /\ DOMAIN fetchCount = {SeedURL, PageA, PageB}
    /\ HrefOther.url \in skipped
    /\ result[KeyRoot] = 2

\* two pathnames are the same but for one trailing slash
DifferBySlash(p, q) == p = q \/ q = Append(p, "/") \/ p = Append(q, "/")

\* u and v differ only by query string, fragment, or a trailing slash
DifferOnlyByQueryHashSlash(u, v) ==
    /\ u.hostname = v.hostname
    /\ u.port = v.port
    /\ DifferBySlash(u.pathname, v.pathname)

\* the same, where the trailing slash follows a path that does not end in one
DifferOnlyByQueryHashOneSlash(u, v) ==
    /\ DifferOnlyByQueryHashSlash(u, v)
    /\ \/ u.pathname = v.pathname
       \/ LET short == IF Len(u.pathname) < Len(v.pathname) THEN u.pathname
                       ELSE v.pathname
          IN  short[Len(short)] # "/"

\* the URL every page of the site links to
LinkOfSite == site[baseURL].body[1].url

\* C13 as claimed: two URLs that differ only by query string, fragment or
\* trailing slash have one key, and a crawl that meets both (one as its seed,
\* the other as a link) keeps one ledger entry for them and fetches once
\* between them.
C13_VariantsShareKey ==
    LET u == baseURL
        v == LinkOfSite
    IN  DifferOnlyByQueryHashSlash(u, v) =>
            /\ normalizeURL(u) = normalizeURL(v)
            /\ u # v => Get(fetchCount, u) + Get(fetchCount, v) <= 1
            /\ crawlState = "returned" => DOMAIN result = {normalizeURL(u)}

\* C13 as amended: the same for two URLs that differ only by query string,
\* fragment, or one trailing slash after a path that does not end in a slash.
C13_VariantsShareKeyOneSlash ==
    LET u == baseURL
        v == LinkOfSite
    IN  DifferOnlyByQueryHashOneSlash(u, v) =>
            /\ normalizeURL(u) = normalizeURL(v)
            /\ u # v => Get(fetchCount, u) + Get(fetchCount, v) <= 1
            /\ crawlState = "returned" => DOMAIN result = {normalizeURL(u)}

\* C13 witness: a crawl has returned whose seed /p/?x=1 links to /p?x=2#f;
\* the seed was fetched, the link was not, and the one entry counts both.
C13_Witness ==
    /\ crawlState = "returned"
    /\ baseURL = MkURL("ex.com", "", <<"/", "p", "/">>, "?x=1", "")
    /\ LinkOfSite = MkURL("ex.com", "", <<"/", "p">>, "?x=2", "#f")
    /\ DOMAIN fetchCount = {baseURL}
    /\ result = Put(NoPages, <<"ex.com", "", "/", "p">>, 2)

\* C14: a crawl started from the command line with <maxConcurrency> and
\* <maxPages> keeps, while it runs and when it has ended, its fetches in flight
\* within the given maxConcurrency and its admitted pages within the given
\* maxPages.
C14_CommandLineLimitsHold ==
    crawlState # "idle" =>
        /\ Cardinality(InFlight) <= maxConcurrency
        /\ Cardinality(DOMAIN pages) <= maxPages

\* the keys a step meets for the first time, as same-host links of the page
\* it extracts
NewLinkKeys ==
    {k \in DOMAIN linked' : Get(linked', k) > Get(linked, k) /\ k \notin DOMAIN pages}

\* C15: pending branches are not bounded by the fetch concurrency: when a
\* page with more than maxConcurrency distinct new same-host links is
\* extracted, more than maxConcurrency branches are past admission and
\* waiting for or running a fetch.
C15_PendingExceedsConcurrency ==
    [][Cardinality(NewLinkKeys) > maxConcurrency =>
           Cardinality(InFlight') > maxConcurrency]_vars

\* C15 witness: three branches are past admission with their fetches not
\* settled, children of one page, in a crawler constructed with concurrency 2.
C15_Witness ==
    /\ maxConcurrency = 2
    /\ \E p \in 1..Len(branches) :
         Cardinality({b \in InFlight : branches[b].parent = p}) = 3

\* the anchors of the page the server holds at url, as getHTML returns them
AnchorsAt(url) == getHTML(site[url]).html

\* C16: the URL of every branch a page has spawned is one of the page's href
\* attributes resolved against the seed URL, whatever the page's own URL.
C16_LinksResolvedAgainstSeed ==
    \A c \in 1..Len(branches) :
        LET p == branches[c].parent IN
        p # 0 =>
            \E i \in 1..Len(AnchorsAt(branches[p].url)) :
                LET href == AnchorsAt(branches[p].url)[i] IN
                /\ href.kind \notin {"empty", "bad"}
                /\ branches[c].url = Resolve(href, baseURL)

\* C16 witness: the page /a/?x=1#top, whose directory is /a/, holds the
\* relative reference b, and the branch it spawned is for /b, not /a/b.
C16_Witness ==
    \E c \in 1..Len(branches) :
        LET p == branches[c].parent IN
        /\ p # 0
        /\ branches[p].url.pathname = <<"/", "a", "/">>
        /\ \E i \in 1..Len(AnchorsAt(branches[p].url)) :
             AnchorsAt(branches[p].url)[i] = HrefRel(<<"b">>)
        /\ branches[c].url = PageB
        /\ Resolve(HrefRel(<<"b">>), branches[p].url) # PageB

\* how many times a step calls addPageVisit with key: once per same-host
\* link that normalizes to it, and once for the seed when crawl() is called
AdmissionsOf(key) ==
    (Get(linked', key) - Get(linked, key))
        + (IF crawlState = "idle" /\ crawlState' = "running" /\ baseURL.ok
              /\ key = normalizeURL(baseURL)
           THEN 1 ELSE 0)

\* C17: the ledger and the set of admitted URLs change only by admissions: a
\* step changes the count of a key by the number of admissions of that key it
\* makes, and admits a URL only under a key new to the ledger; steps that
\* make no admission (a link to another host filtered, a fetch started or
\* settled, links extracted, a join on child branches) leave both unchanged.
C17_LedgerChangesOnlyAtAdmission ==
    [][/\ \A key \in DOMAIN pages \cup DOMAIN pages' :
             Get(pages', key) - Get(pages, key) = AdmissionsOf(key)
       /\ \A u \in DOMAIN fetchCount' \ DOMAIN fetchCount :
             /\ normalizeURL(u) \notin DOMAIN pages
             /\ AdmissionsOf(normalizeURL(u)) >= 1]_vars

\* C17 witness: a crawl has returned in which a link to another host was
\* filtered, a fetch failed, a page joined on its children, and a key was
\* admitted once and counted twice.
C17_Witness ==
    /\ crawlState = "returned"
    /\ skipped # {}
    /\ \E b \in 1..Len(branches) : branches[b].outcome = "failed"
    /\ \E b \in 1..Len(branches) : Children(b) # {}
    /\ \E key \in DOMAIN result : result[key] = 2 /\ FetchesOf(key) = 1

\* The sequential crawlPage(baseURL, currentURL, pages) of the pinned site:
\* each link is crawled to its end before the next one is looked at.
RECURSIVE SeqCrawlPage(_, _)
RECURSIVE SeqCrawlLinks(_, _)
SeqCrawlPage(currentURL, pgs) ==
    IF currentURL.hostname # baseURL.hostname THEN pgs
    ELSE LET normalizedURL == normalizeURL(currentURL) IN
         IF Get(pgs, normalizedURL) > 0
         THEN Put(pgs, normalizedURL, pgs[normalizedURL] + 1)
         ELSE LET got == getHTML(site[currentURL]) IN
              IF got.throws THEN Put(pgs, normalizedURL, 1)
              ELSE SeqCrawlLinks(getURLsFromHTML(got.html, baseURL),
                                 Put(pgs, normalizedURL, 1))

\* for (const nextURL of nextURLs) pages = await crawlPage(baseURL, nextURL, pages)
SeqCrawlLinks(nextURLs, pgs) ==
    IF nextURLs = <<>> THEN pgs
    ELSE SeqCrawlLinks(Tail(nextURLs), SeqCrawlPage(Head(nextURLs), pgs))

SeqLedger == SeqCrawlPage(baseURL, NoPages)

====
